---- MODULE Spec2Model ----
(***************************************************************************)
(* Perspective-correcting capture pipeline of DentalVisionClient:          *)
(* autoDetectOPG, the quad editor, solveHomography and warpPerspective.    *)
(*                                                                         *)
(* JavaScript numbers are modelled as exact rationals <<n, d>> in lowest   *)
(* terms with d >= 0.  d = 0 encodes the non-finite values: <<1,0>> is     *)
(* +Infinity, <<-1,0>> is -Infinity and <<0,0>> is NaN.                    *)
(***************************************************************************)
EXTENDS Integers, Sequences, FiniteSets, TLC

----------------------------------------------------------------------------
(* Number arithmetic                                                       *)

Abs(i) == IF i < 0 THEN -i ELSE i

Sgn(i) == IF i < 0 THEN -1 ELSE IF i > 0 THEN 1 ELSE 0

RECURSIVE GCD(_, _)
GCD(a, b) == IF b = 0 THEN a ELSE GCD(b, a % b)

Norm(n, d) ==
  IF d = 0 THEN <<Sgn(n), 0>>
  ELSE LET g == GCD(Abs(n), Abs(d))
       IN  <<Sgn(d) * (n \div g), Abs(d) \div g>>

R(i) == <<i, 1>>
Frac(n, d) == Norm(n, d)

NaN == <<0, 0>>
IsNaN(a) == a[2] = 0 /\ a[1] = 0
Finite(a) == a[2] # 0

RNeg(a) == <<-a[1], a[2]>>

\* a * b; cross-cancelled so that intermediate products stay small.
\* Infinity * 0 is NaN, as in IEEE arithmetic.
RMul(a, b) ==
  IF a[2] = 0 \/ b[2] = 0 THEN <<Sgn(a[1]) * Sgn(b[1]), 0>>
  ELSE LET g1 == GCD(Abs(a[1]), b[2])
           g2 == GCD(Abs(b[1]), a[2])
       IN  IF a[1] = 0 \/ b[1] = 0 THEN <<0, 1>>
           ELSE <<(a[1] \div g1) * (b[1] \div g2), (a[2] \div g2) * (b[2] \div g1)>>

\* a + b; Infinity + (-Infinity) is NaN.
RAdd(a, b) ==
  IF IsNaN(a) \/ IsNaN(b) THEN NaN
  ELSE IF a[2] = 0 /\ b[2] = 0 THEN (IF a[1] = b[1] THEN a ELSE NaN)
  ELSE IF a[2] = 0 THEN a
  ELSE IF b[2] = 0 THEN b
  ELSE LET g == GCD(a[2], b[2])
       IN  Norm(a[1] * (b[2] \div g) + b[1] * (a[2] \div g), (a[2] \div g) * b[2])

RSub(a, b) == RAdd(a, RNeg(b))

\* 1 / a; 1/0 is Infinity, 1/Infinity is 0.
RInv(a) ==
  IF IsNaN(a) THEN NaN
  ELSE IF a[1] = 0 THEN <<1, 0>>
  ELSE IF a[2] = 0 THEN <<0, 1>>
  ELSE <<Sgn(a[1]) * a[2], Abs(a[1])>>

\* a / b; 0/0 and Infinity/Infinity are NaN.
RDiv(a, b) ==
  IF a[1] = 0 /\ b[1] = 0 /\ Finite(a) /\ Finite(b) THEN NaN
  ELSE IF a[2] = 0 /\ b[2] = 0 THEN NaN
  ELSE RMul(a, RInv(b))

RAbs(a) == <<Abs(a[1]), a[2]>>

\* a < b and a <= b; every comparison with NaN is false.
RLt(a, b) ==
  /\ ~IsNaN(a) /\ ~IsNaN(b)
  /\ IF a[2] = 0 /\ b[2] = 0 THEN a[1] < b[1] ELSE a[1] * b[2] < b[1] * a[2]

RLe(a, b) ==
  /\ ~IsNaN(a) /\ ~IsNaN(b)
  /\ IF a[2] = 0 /\ b[2] = 0 THEN a[1] <= b[1] ELSE a[1] * b[2] <= b[1] * a[2]

\* Math.max / Math.min: NaN if either argument is NaN.
RMax(a, b) == IF IsNaN(a) \/ IsNaN(b) THEN NaN ELSE IF RLt(a, b) THEN b ELSE a
RMin(a, b) == IF IsNaN(a) \/ IsNaN(b) THEN NaN ELSE IF RLt(b, a) THEN b ELSE a

\* Math.round: floor(a + 1/2); non-finite values are returned unchanged.
RRound(a) ==
  IF a[2] = 0 THEN a ELSE <<(2 * a[1] + a[2]) \div (2 * a[2]), 1>>

----------------------------------------------------------------------------
(* solveHomography                                                         *)

\* 1e-10 is 1 / (EpsInvRoot * EpsInvRoot).
EpsInvRoot == 100000

\* The guard left out: no pivot counts as too small.
BelowEps_Never(p) == FALSE

\* Math.abs(pivot) < 1e-10, i.e. d > 10^10 * |n|, without forming 10^10.
BelowEps(p) ==
  /\ Finite(p)
  /\ \/ p[1] = 0
     \/ ((p[2] - 1) \div Abs(p[1])) \div EpsInvRoot >= EpsInvRoot

\* The two rows that correspondence i (0..3) contributes to the augmented
\* matrix M = [A | b].
RowX(s, d) ==
  <<s[1], s[2], R(1), R(0), R(0), R(0),
    RNeg(RMul(d[1], s[1])), RNeg(RMul(d[1], s[2])), d[1]>>

\* The products of the last two columns with the wrong sign.
RowY_SignError(s, d) ==
  <<R(0), R(0), R(0), s[1], s[2], R(1),
    RMul(d[2], s[1]), RMul(d[2], s[2]), d[2]>>

RowY(s, d) ==
  <<R(0), R(0), R(0), s[1], s[2], R(1),
    RNeg(RMul(d[2], s[1])), RNeg(RMul(d[2], s[2])), d[2]>>

InitMatrix(src, dst) ==
  <<RowX(src[1], dst[1]), RowY(src[1], dst[1]),
    RowX(src[2], dst[2]), RowY(src[2], dst[2]),
    RowX(src[3], dst[3]), RowY(src[3], dst[3]),
    RowX(src[4], dst[4]), RowY(src[4], dst[4])>>

\* Partial pivoting: the first row at or below col of largest magnitude.
RECURSIVE MaxRow(_, _, _, _)
MaxRow(M, col, row, best) ==
  IF row > 8 THEN best
  ELSE MaxRow(M, col, row + 1,
              IF RLt(RAbs(M[best][col]), RAbs(M[row][col])) THEN row ELSE best)

\* Rows and matrices are kept as explicit tuples.
Row9(fn) == <<fn[1], fn[2], fn[3], fn[4], fn[5], fn[6], fn[7], fn[8], fn[9]>>

Rows8(fn) == <<fn[1], fn[2], fn[3], fn[4], fn[5], fn[6], fn[7], fn[8]>>

\* [M[col], M[maxRow]] = [M[maxRow], M[col]]
SwapRows(M, a, b) ==
  Rows8([r \in 1..8 |-> IF r = a THEN M[b] ELSE IF r = b THEN M[a] ELSE M[r]])

\* for (j = col; j <= 8; j++) M[col][j] /= pivot
NormaliseRow(row, col, pivot) ==
  Row9([j \in 1..9 |-> IF j >= col THEN RDiv(row[j], pivot) ELSE row[j]])

\* f = M[row][col]; for (j = col; j <= 8; j++) M[row][j] -= f * M[col][j]
EliminateRow(row, prow, col) ==
  LET factor == row[col]
  IN  Row9([j \in 1..9 |-> IF j >= col THEN RSub(row[j], RMul(factor, prow[j])) ELSE row[j]])

\* One iteration of the column loop.  st.M is the matrix; st.log records,
\* for every column, the pivot found and whether the rows were divided by it.
ElimStep(st, col) ==
  LET M1    == SwapRows(st.M, col, MaxRow(st.M, col, col + 1, col))
      pivot == M1[col][col]
  IN  IF BelowEps(pivot)
      THEN [M |-> M1,
            log |-> Append(st.log, [col |-> col, pivot |-> pivot, divided |-> FALSE])]
      ELSE LET pivotRow == NormaliseRow(M1[col], col, pivot)
           IN  [M |-> Rows8([r \in 1..8 |-> IF r = col THEN pivotRow
                                            ELSE EliminateRow(M1[r], pivotRow, col)]),
                log |-> Append(st.log, [col |-> col, pivot |-> pivot, divided |-> TRUE])]

\* for (col = 0; col < 8; col++), one column after the other
RECURSIVE Eliminate(_, _)
Eliminate(st, col) ==
  IF col > 8 THEN st
  ELSE LET next == ElimStep(st, col)
       IN  IF Len(next.log) = col THEN Eliminate(next, col + 1) ELSE next

solveRun(src, dst) ==
  Eliminate([M |-> InitMatrix(src, dst), log |-> <<>>], 1)

\* The nine coefficients h[1..9] (h0..h8 of the source).
solveHomography(src, dst) ==
  LET M == solveRun(src, dst).M
  IN  <<M[1][9], M[2][9], M[3][9], M[4][9], M[5][9], M[6][9], M[7][9], M[8][9], R(1)>>

----------------------------------------------------------------------------
(* Canvases                                                                *)

\* A canvas is [width, height, img]; img describes its content and pixels
\* are RGBA tuples.  Content "ids" paints every pixel with its own
\* coordinates, "blank" is a canvas nothing was drawn on, and "rect" is a
\* rectangle (columns x0..x1, rows y0..y1, in units of 1/div of the side)
\* of colour fg on a background of colour bg.
Transparent == <<0, 0, 0, 0>>

Grey(v) == <<v, v, v, 255>>

Img(kind, fg, bg, x0, x1, y0, y1) ==
  [kind |-> kind, fg |-> fg, bg |-> bg, div |-> 12,
   x0 |-> x0, x1 |-> x1, y0 |-> y0, y1 |-> y1]

ImgIds == Img("ids", Transparent, Transparent, 0, 0, 0, 0)
ImgBlank == Img("blank", Transparent, Transparent, 0, 0, 0, 0)

InRect(img, x, y, w, h) ==
  /\ img.x0 * w <= x * img.div /\ x * img.div < img.x1 * w
  /\ img.y0 * h <= y * img.div /\ y * img.div < img.y1 * h

Pixel(srcCanvas, x, y) ==
  IF srcCanvas.img.kind = "ids" THEN <<x + 1, y + 1, 0, 255>>
  ELSE IF srcCanvas.img.kind = "blank" THEN Transparent
  ELSE IF InRect(srcCanvas.img, x, y, srcCanvas.width, srcCanvas.height)
       THEN srcCanvas.img.fg ELSE srcCanvas.img.bg

\* getImageData(0, 0, W, H).data, indexed by pixel (the four channel bytes
\* of pixel i are the tuple at i).  Reading a typed array outside its length
\* gives undefined, which a Uint8ClampedArray stores as 0.
ImageDataAt(srcCanvas, i) ==
  IF i >= 0 /\ i < srcCanvas.width * srcCanvas.height
  THEN Pixel(srcCanvas, i % srcCanvas.width, i \div srcCanvas.width)
  ELSE Transparent

----------------------------------------------------------------------------
(* warpPerspective                                                         *)

\* The point h maps (dx, dy) to, before rounding.
Project(h, dx, dy) ==
  LET w2 == RAdd(RAdd(RMul(h[7], R(dx)), RMul(h[8], R(dy))), R(1))
  IN  <<RDiv(RAdd(RAdd(RMul(h[1], R(dx)), RMul(h[2], R(dy))), h[3]), w2),
        RDiv(RAdd(RAdd(RMul(h[4], R(dx)), RMul(h[5], R(dy))), h[6]), w2)>>

\* Truncation in place of Math.round.
MapPixel_Floor(h, dx, dy) ==
  LET p == Project(h, dx, dy)
  IN  <<RRound(RSub(p[1], Frac(1, 2))), RRound(RSub(p[2], Frac(1, 2)))>>

\* Source pixel (sx, sy) of destination pixel (dx, dy) under h.
MapPixel(h, dx, dy) ==
  LET p == Project(h, dx, dy)
  IN  <<RRound(p[1]), RRound(p[2])>>

\* The test sx < W left out.
InSource_NoRightEdge(s, W, H) ==
  /\ RLe(R(0), s[1])
  /\ RLe(R(0), s[2]) /\ RLt(s[2], R(H))

\* sx >= 0 && sx < W && sy >= 0 && sy < H
InSource(s, W, H) ==
  /\ RLe(R(0), s[1]) /\ RLt(s[1], R(W))
  /\ RLe(R(0), s[2]) /\ RLt(s[2], R(H))

srcPts(srcCanvas, q) ==
  [i \in 1..4 |-> <<RMul(q[i][1], R(srcCanvas.width)), RMul(q[i][2], R(srcCanvas.height))>>]

\* The output rectangle ending at its last pixel instead of its size.
dstPts_LastPixel(outW, outH) ==
  <<<<R(0), R(0)>>, <<R(outW - 1), R(0)>>, <<R(outW - 1), R(outH - 1)>>, <<R(0), R(outH - 1)>>>>

dstPts(outW, outH) ==
  <<<<R(0), R(0)>>, <<R(outW), R(0)>>, <<R(outW), R(outH)>>, <<R(0), R(outH)>>>>

\* The destination ImageData before it is encoded: data[dy * outW + dx] is
\* the pixel written for (dx, dy), Transparent where nothing was written;
\* reads is the set of source indices the loop read.
warpPerspective(srcCanvas, q, outW, outH) ==
  LET W == srcCanvas.width
      H == srcCanvas.height
      h == solveHomography(dstPts(outW, outH), srcPts(srcCanvas, q))
      s == [di \in 0..(outW * outH - 1) |-> MapPixel(h, di % outW, di \div outW)]
      si(di) == s[di][2][1] * W + s[di][1][1]
  IN  [width  |-> outW,
       height |-> outH,
       h      |-> h,
       data   |-> [di \in 0..(outW * outH - 1) |->
                     IF InSource(s[di], W, H) THEN ImageDataAt(srcCanvas, si(di))
                     ELSE Transparent],
       reads  |-> {si(di) : di \in {d \in 0..(outW * outH - 1) : InSource(s[d], W, H)}}]

----------------------------------------------------------------------------
(* autoDetectOPG                                                           *)

\* Quads are 4-tuples of points <<x, y>> in the order TL, TR, BR, BL.
FallbackQuad ==
  <<<<Frac(7, 100), Frac(12, 100)>>, <<Frac(93, 100), Frac(12, 100)>>,
    <<Frac(93, 100), Frac(88, 100)>>, <<Frac(7, 100), Frac(88, 100)>>>>

\* (r * 77 + g * 150 + b * 29) >> 8
Lum(px) == (px[1] * 77 + px[2] * 150 + px[3] * 29) \div 256

\* total of the luminance over the pixels lo .. hi of data, summed by halves
RECURSIVE SumLum(_, _, _)
SumLum(tmp, lo, hi) ==
  IF lo > hi THEN 0
  ELSE IF lo = hi THEN Lum(ImageDataAt(tmp, lo))
  ELSE LET mid == (lo + hi) \div 2
       IN  SumLum(tmp, lo, mid) + SumLum(tmp, mid + 1, hi)

MinOf(S) == CHOOSE m \in S : \A e \in S : m <= e
MaxOf(S) == CHOOSE m \in S : \A e \in S : m >= e

\* The count test set too low.
Accept_LowCount(count, area, width, height) ==
  /\ count > 10
  /\ RLt(RMul(R(width * height), Frac(5, 100)), R(area))
  /\ RLt(R(area), RMul(R(width * height), Frac(95, 100)))

\* useDetection: count > 100 && area > width * height * 0.05
\*               && area < width * height * 0.95
Accept(count, area, width, height) ==
  /\ count > 100
  /\ RLt(RMul(R(width * height), Frac(5, 100)), R(area))
  /\ RLt(R(area), RMul(R(width * height), Frac(95, 100)))

\* tmp is the canvas the frame is drawn into at SCALE = 0.2; drawing a
\* zero-sized canvas, and getImageData of a zero-sized rectangle, throw.
autoDetectOPG(srcCanvas) ==
  LET width  == RRound(Frac(srcCanvas.width, 5))[1]
      height == RRound(Frac(srcCanvas.height, 5))[1]
      tmp    == [width |-> width, height |-> height, img |-> srcCanvas.img]
  IN  IF srcCanvas.width = 0 \/ srcCanvas.height = 0 \/ width = 0 \/ height = 0
      THEN [raised |-> TRUE, quad |-> <<>>, width |-> width, height |-> height,
            mean |-> NaN, count |-> 0, area |-> 0, useDetection |-> FALSE,
            minX |-> width, maxX |-> 0, minY |-> height, maxY |-> 0]
      ELSE
        LET total     == SumLum(tmp, 0, width * height - 1)
            mean      == Frac(total, width * height)
            threshold == RMax(R(30), RSub(mean, R(40)))
            dark      == {i \in 0..(width * height - 1) :
                            RLt(R(Lum(ImageDataAt(tmp, i))), threshold)}
            minX  == MinOf({width} \cup {i % width : i \in dark})
            maxX  == MaxOf({0} \cup {i % width : i \in dark})
            minY  == MinOf({height} \cup {i \div width : i \in dark})
            maxY  == MaxOf({0} \cup {i \div width : i \in dark})
            count == Cardinality(dark)
            area  == (maxX - minX) * (maxY - minY)
            useDetection == Accept(count, area, width, height)
            pad    == Frac(2, 100)
            left   == RMax(R(0), RSub(Frac(minX, width), pad))
            right  == RMin(R(1), RAdd(Frac(maxX, width), pad))
            top    == RMax(R(0), RSub(Frac(minY, height), pad))
            bottom == RMin(R(1), RAdd(Frac(maxY, height), pad))
        IN  [raised |-> FALSE,
             quad |-> IF useDetection
                      THEN <<<<left, top>>, <<right, top>>,
                             <<right, bottom>>, <<left, bottom>>>>
                      ELSE FallbackQuad,
             width |-> width, height |-> height,
             mean |-> mean, count |-> count, area |-> area, useDetection |-> useDetection,
             minX |-> minX, maxX |-> maxX, minY |-> minY, maxY |-> maxY]

----------------------------------------------------------------------------
(* DentalVisionClient: capture and the quad editor                         *)

VARIABLES
  canvas,                \* canvasRef.current: the hidden capture canvas
  currentOriginalImage,  \* the captured frame as a data URI, or NoImage
  quad,
  dragging,              \* index 0..3 of the corner being dragged, or NoDrag
  isLiveActive,
  isVerifyingScan,
  showLiveResults,
  inFlight,              \* analyses started and not yet finished
  lastOp,                \* the handler that ran last
  raised,                \* whether that handler threw
  call,                  \* a direct call of solveHomography / warpPerspective
  ret,                   \* and what it returned
  activeTab,
  currentProcessedImage, \* the annotated image of the last analysis, or NoImage
  currentResults,        \* its findings, or NoResults
  toast,                 \* the toast shown last
  analyses,              \* the processImage calls, running or finished
  clinicalInsights,
  hotspots,
  selectedFindingIndex,  \* an index into the findings, or NoSelection
  isAiRateLimited,
  streamRef,             \* "stream" while streamRef.current holds a MediaStream
  lostStream             \* a stream no longer referenced has running tracks

editorVars == <<canvas, currentOriginalImage, quad, dragging, isLiveActive,
                isVerifyingScan, showLiveResults, inFlight, lastOp, raised>>

pureVars == <<call, ret>>

\* The editor's state proper.
editorState == <<canvas, currentOriginalImage, quad, dragging, isLiveActive,
                 isVerifyingScan, showLiveResults, inFlight>>

flowVars == <<activeTab, currentProcessedImage, currentResults, toast, analyses>>

consultVars == <<clinicalInsights, hotspots, selectedFindingIndex, isAiRateLimited>>

cameraVars == <<streamRef, lostStream>>

vars == <<canvas, currentOriginalImage, quad, dragging, isLiveActive,
          isVerifyingScan, showLiveResults, inFlight, lastOp, raised,
          call, ret,
          activeTab, currentProcessedImage, currentResults, toast, analyses,
          clinicalInsights, hotspots, selectedFindingIndex, isAiRateLimited,
          streamRef, lostStream>>

NoDrag == -1

NoImage == [width |-> 0, height |-> 0, img |-> Img("null", Transparent, Transparent, 0, 0, 0, 0)]

\* A canvas element starts 300 x 150 and transparent.
NewCanvas == [width |-> 300, height |-> 150, img |-> ImgBlank]

\* The corners in the order TL, TR, BL, BR.
FullFrame_ZOrder == <<<<R(0), R(0)>>, <<R(1), R(0)>>, <<R(0), R(1)>>, <<R(1), R(1)>>>>

FullFrame == <<<<R(0), R(0)>>, <<R(1), R(0)>>, <<R(1), R(1)>>, <<R(0), R(1)>>>>

NoCall == [op |-> "none"]

\* Frames the video element can hold at the moment of capture: no frame
\* decoded yet (videoWidth = videoHeight = 0), a frame of 2 x 2 pixels, and
\* camera frames showing a dark or a bright rectangle.
VideoFrames ==
  << [width |-> 0, height |-> 0, img |-> ImgBlank],
     [width |-> 2, height |-> 2, img |-> ImgIds],
     [width |-> 60, height |-> 50, img |-> Img("rect", Grey(0), Grey(255), 1, 12, 0, 12)],
     [width |-> 60, height |-> 50, img |-> Img("rect", Grey(255), Grey(0), 2, 10, 2, 10)] >>

\* getBoundingClientRect() of the overlay container, and the client
\* coordinates pointer events arrive with (inside and outside the container).
OverlayRect == [left |-> 2, top |-> 1, width |-> 4, height |-> 2]

PointerEvents == {<<0, 0>>, <<4, 2>>, <<7, 4>>, <<7, 0>>}

\* autoDetectOPG of every frame, tabulated once.
Detected ==
  << autoDetectOPG(VideoFrames[1]), autoDetectOPG(VideoFrames[2]),
     autoDetectOPG(VideoFrames[3]), autoDetectOPG(VideoFrames[4]) >>

MaxInFlight == 1

\* useState<AnalysisResults | null>(null)
NoResults == [null |-> TRUE]

\* null, for the tutor's insights and the hotspots.
Null == [null |-> TRUE]

NoSelection == -1

NoToast == [variant |-> "none", title |-> "none", description |-> <<>>]

\* A processImage call that has not started.
IdleAnalysis ==
  [pc |-> "idle", dataUri |-> NoImage, autoNav |-> FALSE,
   originalFallbackUri |-> NoImage, fromVerified |-> FALSE,
   sent |-> <<>>, replies |-> <<>>, results |-> NoResults, genai |-> "none"]

NoAnalyses == [i \in 1..MaxInFlight |-> IdleAnalysis]

Init ==
  /\ canvas = NewCanvas
  /\ currentOriginalImage = NoImage
  /\ quad = FallbackQuad
  /\ dragging = NoDrag
  /\ isLiveActive = FALSE
  /\ isVerifyingScan = FALSE
  /\ showLiveResults = FALSE
  /\ inFlight = 0
  /\ lastOp = "mount"
  /\ raised = FALSE
  /\ call = NoCall
  /\ ret = NoCall
  /\ activeTab = "upload"
  /\ currentProcessedImage = NoImage
  /\ currentResults = NoResults
  /\ toast = NoToast
  /\ analyses = NoAnalyses
  /\ clinicalInsights = Null
  /\ hotspots = Null
  /\ selectedFindingIndex = NoSelection
  /\ isAiRateLimited = FALSE
  /\ streamRef = "null"
  /\ lostStream = FALSE

\* The verification overlay (and with it the corner handles) is rendered.
OverlayRendered == isVerifyingScan /\ currentOriginalImage # NoImage

\* The <video> element is rendered.
VideoRendered == ~showLiveResults /\ ~isVerifyingScan

CameraDeniedToast ==
  [variant |-> "destructive", title |-> "Camera Access Denied",
   description |-> <<"Please allow camera access to use Live View Shoot.">>]

\* The body of initCamera once getUserMedia has answered.  Granted: the new
\* stream replaces the one streamRef held, whose tracks are not stopped.
\* Denied: the catch block shows a toast.
CameraAnswer(granted) ==
  IF granted
  THEN /\ streamRef' = "stream"
       /\ lostStream' = (lostStream \/ streamRef = "stream")
       /\ isLiveActive' = TRUE
       /\ showLiveResults' = FALSE
       /\ isVerifyingScan' = FALSE
       /\ currentProcessedImage' = NoImage
       /\ UNCHANGED toast
  ELSE /\ toast' = CameraDeniedToast
       /\ UNCHANGED <<streamRef, lostStream, isLiveActive, showLiveResults,
                      isVerifyingScan, currentProcessedImage>>

\* stopLive: the tracks of the stream streamRef holds are stopped.
stopLive ==
  /\ isLiveActive' = FALSE
  /\ streamRef' = "null"
  /\ UNCHANGED lostStream

\* initCamera once getUserMedia has answered: granted or denied.
initCamera ==
  /\ \E granted \in BOOLEAN : CameraAnswer(granted)
  /\ lastOp' = "initCamera"
  /\ raised' = FALSE
  /\ UNCHANGED <<canvas, currentOriginalImage, quad, dragging, inFlight>>
  /\ UNCHANGED pureVars
  /\ UNCHANGED consultVars
  /\ UNCHANGED <<activeTab, currentResults, analyses>>

\* handleCapture on the CAPTURE & SCAN button.  An exception thrown by
\* autoDetectOPG leaves the handler before setQuad.
handleCapture ==
  /\ isLiveActive /\ VideoRendered
  /\ \E k \in 1..Len(VideoFrames) :
       LET video    == VideoFrames[k]
           detected == Detected[k]
       IN  /\ canvas' = video
           /\ currentOriginalImage' = video
           /\ raised' = detected.raised
           /\ IF detected.raised
              THEN UNCHANGED <<quad, isVerifyingScan, isLiveActive, streamRef, lostStream>>
              ELSE /\ quad' = detected.quad
                   /\ isVerifyingScan' = TRUE
                   /\ stopLive
  /\ lastOp' = "handleCapture"
  /\ UNCHANGED <<dragging, showLiveResults, inFlight>>
  /\ UNCHANGED pureVars
  /\ UNCHANGED consultVars
  /\ UNCHANGED flowVars

\* startAnalysisFromVerified on CONFIRM & ANALYZE: warps and starts the
\* analysis transition.
startAnalysisFromVerified ==
  /\ isVerifyingScan /\ ~isLiveActive
  /\ currentOriginalImage # NoImage
  /\ inFlight < MaxInFlight
  /\ inFlight' = inFlight + 1
  /\ lastOp' = "startAnalysisFromVerified"
  /\ raised' = FALSE
  /\ UNCHANGED <<canvas, currentOriginalImage, quad, dragging, isLiveActive,
                 isVerifyingScan, showLiveResults>>
  /\ UNCHANGED pureVars
  /\ UNCHANGED consultVars
  /\ UNCHANGED cameraVars
  /\ UNCHANGED flowVars

\* The end of the transition started by startAnalysisFromVerified:
\* processImage has shown the results or reported a failure.
finishAnalysis ==
  /\ inFlight > 0
  /\ inFlight' = inFlight - 1
  /\ \E success \in BOOLEAN :
       showLiveResults' = IF success THEN TRUE ELSE showLiveResults
  /\ isVerifyingScan' = FALSE
  /\ lastOp' = "finishAnalysis"
  /\ raised' = FALSE
  /\ UNCHANGED <<canvas, currentOriginalImage, quad, dragging, isLiveActive>>
  /\ UNCHANGED pureVars
  /\ UNCHANGED consultVars
  /\ UNCHANGED cameraVars
  /\ UNCHANGED flowVars

\* A reset that also ends the drag in progress.
useFullFrameInstead_ClearsDrag ==
  /\ isVerifyingScan /\ ~isLiveActive
  /\ quad' = FullFrame
  /\ dragging' = NoDrag
  /\ lastOp' = "useFullFrameInstead"
  /\ raised' = FALSE
  /\ UNCHANGED <<canvas, currentOriginalImage, isLiveActive,
                 isVerifyingScan, showLiveResults, inFlight>>
  /\ UNCHANGED pureVars
  /\ UNCHANGED consultVars
  /\ UNCHANGED cameraVars
  /\ UNCHANGED flowVars

\* useFullFrameInstead on RESET QUAD.
useFullFrameInstead ==
  /\ isVerifyingScan /\ ~isLiveActive
  /\ quad' = FullFrame
  /\ lastOp' = "useFullFrameInstead"
  /\ raised' = FALSE
  /\ UNCHANGED <<canvas, currentOriginalImage, dragging, isLiveActive,
                 isVerifyingScan, showLiveResults, inFlight>>
  /\ UNCHANGED pureVars
  /\ UNCHANGED consultVars
  /\ UNCHANGED cameraVars
  /\ UNCHANGED flowVars

\* The coordinate passed on unclamped.
Clamp01_NoClamp(a) == a

Clamp01(a) == RMax(R(0), RMin(R(1), a))

\* The position of client coordinates (cx, cy) relative to the container.
RelativeXY(cx, cy) ==
  <<Clamp01(RDiv(RSub(cx, R(OverlayRect.left)), R(OverlayRect.width))),
    Clamp01(RDiv(RSub(cy, R(OverlayRect.top)), R(OverlayRect.height)))>>

getRelativeXY(e) == RelativeXY(R(e[1]), R(e[2]))

\* Where <img class="w-full h-full object-contain"> paints a picture of
\* imgW x imgH inside the container: the largest centred rectangle of the
\* picture's aspect ratio, in client coordinates.
RenderedImageRect(imgW, imgH) ==
  LET scale == RMin(Frac(OverlayRect.width, imgW), Frac(OverlayRect.height, imgH))
      w     == RMul(scale, R(imgW))
      h     == RMul(scale, R(imgH))
  IN  [left   |-> RAdd(R(OverlayRect.left), RDiv(RSub(R(OverlayRect.width), w), R(2))),
       top    |-> RAdd(R(OverlayRect.top), RDiv(RSub(R(OverlayRect.height), h), R(2))),
       width  |-> w,
       height |-> h]

onHandlePointerDown ==
  /\ OverlayRendered
  /\ \E idx \in 0..3 : dragging' = idx
  /\ lastOp' = "onHandlePointerDown"
  /\ raised' = FALSE
  /\ UNCHANGED <<canvas, currentOriginalImage, quad, isLiveActive,
                 isVerifyingScan, showLiveResults, inFlight>>
  /\ UNCHANGED pureVars
  /\ UNCHANGED consultVars
  /\ UNCHANGED cameraVars
  /\ UNCHANGED flowVars

\* The entry after the dragged one written.
SetCorner_NextIndex(prev, idx, pt) ==
  [i \in 1..4 |-> IF i = ((idx + 1) % 4) + 1 THEN pt ELSE prev[i]]

\* next = [...prev]; next[dragging] = {x: nx, y: ny}
SetCorner(prev, idx, pt) == [i \in 1..4 |-> IF i = idx + 1 THEN pt ELSE prev[i]]

onOverlayPointerMove ==
  /\ OverlayRendered
  /\ \E e \in PointerEvents :
       quad' = IF dragging = NoDrag THEN quad
               ELSE SetCorner(quad, dragging, getRelativeXY(e))
  /\ lastOp' = "onOverlayPointerMove"
  /\ raised' = FALSE
  /\ UNCHANGED <<canvas, currentOriginalImage, dragging, isLiveActive,
                 isVerifyingScan, showLiveResults, inFlight>>
  /\ UNCHANGED pureVars
  /\ UNCHANGED consultVars
  /\ UNCHANGED cameraVars
  /\ UNCHANGED flowVars

onPointerUp ==
  /\ OverlayRendered
  /\ dragging' = NoDrag
  /\ lastOp' = "onPointerUp"
  /\ raised' = FALSE
  /\ UNCHANGED <<canvas, currentOriginalImage, quad, isLiveActive,
                 isVerifyingScan, showLiveResults, inFlight>>
  /\ UNCHANGED pureVars
  /\ UNCHANGED consultVars
  /\ UNCHANGED cameraVars
  /\ UNCHANGED flowVars

Next ==
  \/ initCamera
  \/ handleCapture
  \/ startAnalysisFromVerified
  \/ finishAnalysis
  \/ useFullFrameInstead
  \/ onHandlePointerDown
  \/ onOverlayPointerMove
  \/ onPointerUp

Spec == Init /\ [][Next]_vars

----------------------------------------------------------------------------
(* solveHomography and warpPerspective called on their own                 *)

SrcW == 4
SrcH == 3
OutW == 4
OutH == 2

\* Normalised coordinates a corner can have: 0, 1/2 and 1.
GridPoints == {<<Frac(a, 2), Frac(b, 2)>> : a \in 0..2, b \in 0..2}

GridQuads == {<<p1, p2, p3, p4>> : p1 \in GridPoints, p2 \in GridPoints,
                                   p3 \in GridPoints, p4 \in GridPoints}

IdsCanvas(w, h) == [width |-> w, height |-> h, img |-> ImgIds]

WarpCall(c, q, w, h) ==
  [op |-> "warp", srcCanvas |-> c, q |-> q, outW |-> w, outH |-> h,
   src |-> dstPts(w, h), dst |-> srcPts(c, q)]

SolveCall(src, dst) ==
  [op |-> "solve", srcCanvas |-> NewCanvas, q |-> FullFrame, outW |-> 0, outH |-> 0,
   src |-> src, dst |-> dst]

\* Every grid quad warped to OutW x OutH; the full frame, the fallback quad
\* and a quad with the corner of the worked example warped to the size of
\* the source.
ExampleQuad ==
  <<<<Frac(1, 10), Frac(1, 10)>>, <<Frac(9, 10), Frac(1, 10)>>,
    <<Frac(9, 10), Frac(9, 10)>>, <<Frac(1, 10), Frac(9, 10)>>>>

WarpCalls ==
  {WarpCall(IdsCanvas(SrcW, SrcH), q, OutW, OutH) : q \in GridQuads}
  \cup {WarpCall(IdsCanvas(SrcW, SrcH), q, SrcW, SrcH) :
          q \in {FullFrame, FallbackQuad, ExampleQuad}}
  \cup {WarpCall(IdsCanvas(SrcH, SrcW), FullFrame, SrcH, SrcW)}

\* Point lists with duplicate, collinear and all-equal points.
SolvePoints == {<<R(0), R(0)>>, <<R(2), R(0)>>, <<R(1), R(1)>>}

SolveLists == {<<p1, p2, p3, p4>> : p1 \in SolvePoints, p2 \in SolvePoints,
                                    p3 \in SolvePoints, p4 \in SolvePoints}

\* The correspondences of the worked example: a 1280 x 720 source, the
\* example quad and a 1200 x 600 output.
ExampleSolve ==
  SolveCall(dstPts(1200, 600), srcPts(IdsCanvas(1280, 720), ExampleQuad))

SolveCalls == {SolveCall(s, d) : s \in SolveLists, d \in SolveLists} \cup {ExampleSolve}

\* A picture of one rectangle, its edges in units of 1/div of the side.
RectImg(fg, bg, x0, x1, y0, y1, div) ==
  [kind |-> "rect", fg |-> fg, bg |-> bg, div |-> div,
   x0 |-> x0, x1 |-> x1, y0 |-> y0, y1 |-> y1]

Frame(w, h, img) == [width |-> w, height |-> h, img |-> img]

DetectCall(c) ==
  [op |-> "detect", srcCanvas |-> c, q |-> FullFrame, outW |-> 0, outH |-> 0,
   src |-> FullFrame, dst |-> FullFrame]

\* Edges of the rectangles drawn, in twelfths of the side.
RectEdges == {0, 4, 8, 12}

Spans == {sp \in RectEdges \X RectEdges : sp[1] < sp[2]}

\* Dark on bright and bright on dark.
Polarities == {<<Grey(0), Grey(255)>>, <<Grey(255), Grey(0)>>, <<Grey(20), Grey(90)>>}

\* Source sizes: they give grids of 12 x 10, 24 x 20 and 20 x 20 pixels.
FrameSizes == {<<60, 50>>, <<120, 100>>, <<100, 100>>}

RectFrames ==
  {Frame(sz[1], sz[2], RectImg(pol[1], pol[2], sx[1], sx[2], sy[1], sy[2], 12)) :
     sz \in FrameSizes, pol \in Polarities, sx \in Spans, sy \in Spans}

\* Frames of 500 x 500 (a grid of 100 x 100): a bright rectangle over rows
\* 20-80 and columns 10-90 on black, the same in dark on white, a black and
\* a white frame, a dark patch of 50 grid pixels, and two dark rows.
LargeFrames ==
  {Frame(500, 500, RectImg(Grey(255), Grey(0), 1, 9, 2, 8, 10)),
   Frame(500, 500, RectImg(Grey(0), Grey(255), 1, 9, 2, 8, 10)),
   Frame(500, 500, RectImg(Grey(0), Grey(255), 0, 20, 0, 20, 20)),
   Frame(500, 500, RectImg(Grey(255), Grey(0), 0, 20, 0, 20, 20)),
   Frame(500, 500, RectImg(Grey(0), Grey(255), 4, 6, 7, 8, 20)),
   Frame(500, 500, RectImg(Grey(0), Grey(255), 0, 100, 10, 12, 100))}

DetectCalls ==
  {DetectCall(c) : c \in RectFrames \cup LargeFrames}
  \cup {DetectCall(VideoFrames[k]) : k \in 1..Len(VideoFrames)}

InitPure ==
  /\ canvas = NewCanvas
  /\ currentOriginalImage = NoImage
  /\ quad = FallbackQuad
  /\ dragging = NoDrag
  /\ isLiveActive = FALSE
  /\ isVerifyingScan = FALSE
  /\ showLiveResults = FALSE
  /\ inFlight = 0
  /\ lastOp = "mount"
  /\ raised = FALSE
  /\ call \in WarpCalls \cup SolveCalls \cup DetectCalls
  /\ ret = NoCall
  /\ activeTab = "upload"
  /\ currentProcessedImage = NoImage
  /\ currentResults = NoResults
  /\ toast = NoToast
  /\ analyses = NoAnalyses
  /\ clinicalInsights = Null
  /\ hotspots = Null
  /\ selectedFindingIndex = NoSelection
  /\ isAiRateLimited = FALSE
  /\ streamRef = "null"
  /\ lostStream = FALSE

runSolve ==
  /\ call.op = "solve" /\ ret = NoCall
  /\ ret' = [op |-> "solve", h |-> solveHomography(call.src, call.dst),
             log |-> solveRun(call.src, call.dst).log]
  /\ UNCHANGED <<call>>
  /\ UNCHANGED editorVars
  /\ UNCHANGED flowVars
  /\ UNCHANGED consultVars
  /\ UNCHANGED cameraVars

runWarp ==
  /\ call.op = "warp" /\ ret = NoCall
  /\ ret' = [op |-> "warp",
             out |-> warpPerspective(call.srcCanvas, call.q, call.outW, call.outH)]
  /\ UNCHANGED <<call>>
  /\ UNCHANGED editorVars
  /\ UNCHANGED flowVars
  /\ UNCHANGED consultVars
  /\ UNCHANGED cameraVars

runDetect ==
  /\ call.op = "detect" /\ ret = NoCall
  /\ ret' = [op |-> "detect", out |-> autoDetectOPG(call.srcCanvas)]
  /\ UNCHANGED <<call>>
  /\ UNCHANGED editorVars
  /\ UNCHANGED flowVars
  /\ UNCHANGED consultVars
  /\ UNCHANGED cameraVars

NextPure == runSolve \/ runWarp \/ runDetect

SpecPure == InitPure /\ [][NextPure]_vars

----------------------------------------------------------------------------
(* processImage: the analysis of a confirmed or uploaded image             *)

\* A camera frame of 1920 x 1080.
BigFrame == Frame(1920, 1080, RectImg(Grey(0), Grey(255), 2, 10, 2, 10, 12))

\* The data URI warpPerspective(canvasRef.current, quad, 1200, 600) returns:
\* a JPEG of 1200 x 600 determined by the source frame and the quad.
warpedUri(srcCanvas, q) ==
  [width |-> 1200, height |-> 600,
   img |-> [kind |-> "warped", of |-> srcCanvas, q |-> q]]

\* compressImage: the longer side scaled down to maxDim (the canvas size
\* drops the fraction), the picture redrawn and encoded as JPEG at 0.8.
compressImage(dataUri, maxDim) ==
  LET w0 == dataUri.width
      h0 == dataUri.height
      w  == IF w0 > h0
            THEN IF w0 > maxDim THEN maxDim ELSE w0
            ELSE IF h0 > maxDim THEN (w0 * maxDim) \div h0 ELSE w0
      h  == IF w0 > h0
            THEN IF w0 > maxDim THEN (h0 * maxDim) \div w0 ELSE h0
            ELSE IF h0 > maxDim THEN maxDim ELSE h0
  IN  [width |-> w, height |-> h,
       img |-> [kind |-> "jpeg", quality |-> Frac(8, 10), of |-> dataUri.img]]

\* Texts are sequences of characters; a fixed message of the interface is
\* kept in one piece.
UpperCase ==
  <<"A", "B", "C", "D", "E", "F", "G", "H", "I", "J", "K", "L", "M",
    "N", "O", "P", "Q", "R", "S", "T", "U", "V", "W", "X", "Y", "Z">>

LowerCase ==
  <<"a", "b", "c", "d", "e", "f", "g", "h", "i", "j", "k", "l", "m",
    "n", "o", "p", "q", "r", "s", "t", "u", "v", "w", "x", "y", "z">>

toLowerCase(text) ==
  [k \in 1..Len(text) |->
     IF \E n \in 1..Len(UpperCase) : UpperCase[n] = text[k]
     THEN LowerCase[CHOOSE n \in 1..Len(UpperCase) : UpperCase[n] = text[k]]
     ELSE text[k]]

includes(text, part) ==
  \E k \in 1..(Len(text) - Len(part) + 1) : SubSeq(text, k, k + Len(part) - 1) = part

ArchHint ==
  <<"AI could not identify the dental arch. Please center the OPG and ensure it is well-lit.">>

\* The text of the failure toast shown as it arrived.
errorMsg_Unchanged(error) == error

errorMsg(error) ==
  IF includes(toLowerCase(error), <<"a", "r", "g", "m", "i", "n">>)
  THEN ArchHint
  ELSE error

CompleteToast ==
  [variant |-> "default", title |-> "Analysis Complete",
   description |-> <<"Clinical findings have been mapped.">>]

FailedToast(error) ==
  [variant |-> "destructive", title |-> "Analysis Failed",
   description |-> errorMsg(error)]

\* e.message || "A communication error occurred."
SystemErrorToast(message) ==
  [variant |-> "destructive", title |-> "System Error",
   description |-> IF message = <<>> THEN <<"A communication error occurred.">>
                   ELSE message]

\* Error texts runAnalysis returns in { success: false, error }.
ServiceErrors ==
  { <<"t", "i", "m", "e", "o", "u", "t">>,
    <<"A", "r", "g", "M", "i", "n">>,
    <<"n", "o", " ", "a", "r", "g", "m", "i", "n", "!">> }

\* Messages of the exception a rejected server-action call carries.
ThrownMessages == { <<"f", "e", "t", "c", "h">>, <<>> }

\* What the service answers for the image it was sent.
ServiceData(sentUri) ==
  { [processedImage |-> [width |-> sentUri.width, height |-> sentUri.height,
                         img |-> [kind |-> "annotated", of |-> sentUri.img]],
     results |-> [null |-> FALSE, findings |-> f]] :
      f \in { <<>>, <<[disease |-> "Decay", count |-> 1]>> } }

Slots == 1..MaxInFlight

\* useTransition: an analysis started and not yet finished.
isAnalyzing == inFlight > 0

FreeSlots == {i \in Slots : analyses[i].pc \in {"idle", "done"}}

\* Frames captured and quads left by handleCapture and useFullFrameInstead
\* at the moment the verification overlay is shown.
VerificationStates ==
  { <<VideoFrames[3], Detected[3].quad>>,
    <<VideoFrames[4], Detected[4].quad>>,
    <<BigFrame, FullFrame>> }

InitFlow ==
  /\ \E vs \in VerificationStates :
       /\ canvas = vs[1]
       /\ currentOriginalImage = vs[1]
       /\ quad = vs[2]
  /\ dragging = NoDrag
  /\ isLiveActive = FALSE
  /\ isVerifyingScan = TRUE
  /\ showLiveResults = FALSE
  /\ inFlight = 0
  /\ lastOp = "handleCapture"
  /\ raised = FALSE
  /\ call = NoCall
  /\ ret = NoCall
  /\ activeTab = "live"
  /\ currentProcessedImage = NoImage
  /\ currentResults = NoResults
  /\ toast = NoToast
  /\ analyses = NoAnalyses
  /\ clinicalInsights = Null
  /\ hotspots = Null
  /\ selectedFindingIndex = NoSelection
  /\ isAiRateLimited = FALSE
  /\ streamRef = "null"
  /\ lostStream = FALSE

\* <Tabs onValueChange={setActiveTab}>; the consult tab is disabled while
\* there are no results.
\* The Upload trigger also runs stopLive and the Live trigger initCamera.
onTabChange ==
  /\ \E tab \in {"upload", "live", "consult"} :
       /\ tab # activeTab
       /\ tab = "consult" => currentResults # NoResults
       /\ activeTab' = tab
       /\ CASE tab = "upload" ->
                 /\ stopLive
                 /\ UNCHANGED <<isVerifyingScan, showLiveResults,
                                currentProcessedImage, toast>>
            [] tab = "live" -> \E granted \in BOOLEAN : CameraAnswer(granted)
            [] OTHER ->
                 UNCHANGED <<isLiveActive, isVerifyingScan, showLiveResults,
                             currentProcessedImage, toast, streamRef, lostStream>>
  /\ lastOp' = "onTabChange"
  /\ raised' = FALSE
  /\ UNCHANGED <<canvas, currentOriginalImage, quad, dragging, inFlight>>
  /\ UNCHANGED <<currentResults, analyses>>
  /\ UNCHANGED pureVars
  /\ UNCHANGED consultVars

\* Files the picker can hand over: a portrait radiograph, and a file that
\* is no picture (accept="image/*" is a hint; its data URI never loads).
UploadFiles ==
  { Frame(1500, 3000, RectImg(Grey(255), Grey(0), 2, 10, 2, 10, 12)),
    [width |-> 0, height |-> 0, img |-> [kind |-> "undecodable"]] }

\* img.onload fires for the data URI.
Decodable(dataUri) == dataUri.img.kind # "undecodable"

\* handleFileUpload once the FileReader has loaded the chosen file.  The
\* picker opens while no image is held and no analysis runs.
handleFileUpload ==
  /\ activeTab = "upload"
  /\ currentOriginalImage = NoImage
  /\ inFlight = 0
  /\ \E file \in UploadFiles : currentOriginalImage' = file
  /\ currentResults' = NoResults
  /\ currentProcessedImage' = NoImage
  /\ lastOp' = "handleFileUpload"
  /\ raised' = FALSE
  /\ UNCHANGED <<canvas, quad, dragging, isLiveActive, isVerifyingScan,
                 showLiveResults, inFlight>>
  /\ UNCHANGED <<activeTab, toast, analyses>>
  /\ UNCHANGED pureVars
  /\ UNCHANGED consultVars
  /\ UNCHANGED cameraVars

\* clearUpload on the X button, rendered while no analysis runs.
clearUpload ==
  /\ activeTab = "upload"
  /\ currentOriginalImage # NoImage
  /\ inFlight = 0
  /\ currentOriginalImage' = NoImage
  /\ currentResults' = NoResults
  /\ currentProcessedImage' = NoImage
  /\ lastOp' = "clearUpload"
  /\ raised' = FALSE
  /\ UNCHANGED <<canvas, quad, dragging, isLiveActive, isVerifyingScan,
                 showLiveResults, inFlight>>
  /\ UNCHANGED <<activeTab, toast, analyses>>
  /\ UNCHANGED pureVars
  /\ UNCHANGED consultVars
  /\ UNCHANGED cameraVars

\* setSelectedFindingIndex(i) on a hotspot of the analysed image or on the
\* badge of a finding.
selectFinding ==
  /\ activeTab = "consult"
  /\ \E i \in 0..2 :
       /\ \/ /\ currentProcessedImage # NoImage
             /\ hotspots # Null
             /\ i < hotspots.count
          \/ /\ currentResults # NoResults
             /\ i < Len(currentResults.findings)
       /\ selectedFindingIndex' = i
  /\ lastOp' = "selectFinding"
  /\ raised' = FALSE
  /\ UNCHANGED <<clinicalInsights, hotspots, isAiRateLimited>>
  /\ UNCHANGED editorState
  /\ UNCHANGED flowVars
  /\ UNCHANGED pureVars
  /\ UNCHANGED cameraVars

\* processImage up to its first await: the previous results are cleared and
\* compressImage(dataUri, 1200) is started.
processImage(i, dataUri, autoNav, originalFallbackUri, fromVerified) ==
  /\ currentProcessedImage' = NoImage
  /\ currentResults' = NoResults
  /\ clinicalInsights' = Null
  /\ hotspots' = Null
  /\ selectedFindingIndex' = NoSelection
  /\ isAiRateLimited' = FALSE
  /\ analyses' = [analyses EXCEPT ![i] =
       [pc |-> "compress", dataUri |-> dataUri, autoNav |-> autoNav,
        originalFallbackUri |-> originalFallbackUri, fromVerified |-> fromVerified,
        sent |-> <<>>, replies |-> <<>>, results |-> NoResults, genai |-> "none"]]
  /\ inFlight' = inFlight + 1

\* startAnalysisFromVerified on CONFIRM & ANALYZE, with the processImage
\* call it makes.  The button is not disabled while an analysis runs.
confirmVerified ==
  /\ activeTab = "live"
  /\ isVerifyingScan /\ ~isLiveActive
  /\ currentOriginalImage # NoImage
  /\ FreeSlots # {}
  /\ LET i == CHOOSE k \in FreeSlots : \A j \in FreeSlots : k <= j
     IN  processImage(i, warpedUri(canvas, quad), FALSE, currentOriginalImage, TRUE)
  /\ lastOp' = "startAnalysisFromVerified"
  /\ raised' = FALSE
  /\ UNCHANGED <<canvas, currentOriginalImage, quad, dragging, isLiveActive,
                 isVerifyingScan, showLiveResults>>
  /\ UNCHANGED <<activeTab, toast>>
  /\ UNCHANGED pureVars
  /\ UNCHANGED cameraVars

\* startUploadAnalysis on the upload tab's button, rendered while there are
\* no results and disabled while an analysis runs.
startUploadAnalysis ==
  /\ activeTab = "upload"
  /\ currentOriginalImage # NoImage
  /\ currentResults = NoResults
  /\ ~isAnalyzing
  /\ FreeSlots # {}
  /\ LET i == CHOOSE k \in FreeSlots : \A j \in FreeSlots : k <= j
     IN  processImage(i, currentOriginalImage, TRUE, NoImage, FALSE)
  /\ lastOp' = "startUploadAnalysis"
  /\ raised' = FALSE
  /\ UNCHANGED <<canvas, currentOriginalImage, quad, dragging, isLiveActive,
                 isVerifyingScan, showLiveResults>>
  /\ UNCHANGED <<activeTab, toast>>
  /\ UNCHANGED pureVars
  /\ UNCHANGED cameraVars

\* compressImage(dataUri, 1200) has resolved: the first runAnalysis call is
\* sent.
sendCompressed ==
  /\ \E i \in Slots :
       /\ analyses[i].pc = "compress"
       /\ Decodable(analyses[i].dataUri)
       /\ analyses' = [analyses EXCEPT
            ![i].pc = "call",
            ![i].sent = <<compressImage(analyses[i].dataUri, 1200)>>]
  /\ lastOp' = "sendCompressed"
  /\ raised' = FALSE
  /\ UNCHANGED <<canvas, currentOriginalImage, quad, dragging, isLiveActive,
                 isVerifyingScan, showLiveResults, inFlight>>
  /\ UNCHANGED <<activeTab, currentProcessedImage, currentResults, toast>>
  /\ UNCHANGED pureVars
  /\ UNCHANGED consultVars
  /\ UNCHANGED cameraVars

\* The retry sent with the original frame as it is.
compressedFallback_Raw(p) == p.originalFallbackUri

\* compressedFallback = await compressImage(originalFallbackUri, 1200)
compressedFallback(p) == compressImage(p.originalFallbackUri, 1200)

\* The end of a processImage call and of the transition around it:
\* startAnalysisFromVerified then leaves the verification mode.
Finished(p) ==
  /\ inFlight' = inFlight - 1
  /\ isVerifyingScan' = IF p.fromVerified THEN FALSE ELSE isVerifyingScan

\* A runAnalysis call returns { success: true, data }: the results are
\* recorded and the two insight calls are awaited.
runAnalysisSucceeds ==
  /\ \E i \in Slots :
       /\ analyses[i].pc \in {"call", "retry"}
       /\ \E data \in ServiceData(analyses[i].sent[Len(analyses[i].sent)]) :
            /\ currentProcessedImage' = data.processedImage
            /\ currentResults' = data.results
            /\ analyses' = [analyses EXCEPT
                 ![i].pc = "insights",
                 ![i].results = data.results,
                 ![i].genai = "pending",
                 ![i].replies = Append(@, [kind |-> "success", text |-> <<>>])]
  /\ lastOp' = "runAnalysisSucceeds"
  /\ raised' = FALSE
  /\ UNCHANGED <<canvas, currentOriginalImage, quad, dragging, isLiveActive,
                 isVerifyingScan, showLiveResults, inFlight>>
  /\ UNCHANGED <<activeTab, toast>>
  /\ UNCHANGED pureVars
  /\ UNCHANGED consultVars
  /\ UNCHANGED cameraVars

\* A runAnalysis call returns { success: false, error }: the first call of
\* a processImage given an original frame is followed by the compression of
\* that frame, any other by the failure toast.
runAnalysisFails ==
  /\ \E i \in Slots, error \in ServiceErrors :
       LET p == analyses[i]
           reply == [kind |-> "failure", text |-> error]
       IN  /\ p.pc \in {"call", "retry"}
           /\ IF p.pc = "call" /\ p.originalFallbackUri # NoImage
              THEN /\ analyses' = [analyses EXCEPT
                        ![i].pc = "compressFallback",
                        ![i].replies = Append(@, reply)]
                   /\ UNCHANGED <<toast, inFlight, isVerifyingScan>>
              ELSE /\ analyses' = [analyses EXCEPT
                        ![i].pc = "done",
                        ![i].replies = Append(@, reply)]
                   /\ toast' = FailedToast(error)
                   /\ Finished(p)
  /\ lastOp' = "runAnalysisFails"
  /\ raised' = FALSE
  /\ UNCHANGED <<canvas, currentOriginalImage, quad, dragging, isLiveActive,
                 showLiveResults>>
  /\ UNCHANGED <<activeTab, currentProcessedImage, currentResults>>
  /\ UNCHANGED pureVars
  /\ UNCHANGED consultVars
  /\ UNCHANGED cameraVars

\* A runAnalysis call rejects: the catch block of processImage shows the
\* system error.
runAnalysisThrows ==
  /\ \E i \in Slots, message \in ThrownMessages :
       LET p == analyses[i]
       IN  /\ p.pc \in {"call", "retry"}
           /\ analyses' = [analyses EXCEPT
                ![i].pc = "done",
                ![i].replies = Append(@, [kind |-> "thrown", text |-> message])]
           /\ toast' = SystemErrorToast(message)
           /\ Finished(p)
  /\ lastOp' = "runAnalysisThrows"
  /\ raised' = FALSE
  /\ UNCHANGED <<canvas, currentOriginalImage, quad, dragging, isLiveActive,
                 showLiveResults>>
  /\ UNCHANGED <<activeTab, currentProcessedImage, currentResults>>
  /\ UNCHANGED pureVars
  /\ UNCHANGED consultVars
  /\ UNCHANGED cameraVars

\* compressImage(originalFallbackUri, 1200) has resolved: the second
\* runAnalysis call is sent.
sendFallback ==
  /\ \E i \in Slots :
       /\ analyses[i].pc = "compressFallback"
       /\ Decodable(analyses[i].originalFallbackUri)
       /\ analyses' = [analyses EXCEPT
            ![i].pc = "retry",
            ![i].sent = Append(@, compressedFallback(analyses[i]))]
  /\ lastOp' = "sendFallback"
  /\ raised' = FALSE
  /\ UNCHANGED <<canvas, currentOriginalImage, quad, dragging, isLiveActive,
                 isVerifyingScan, showLiveResults, inFlight>>
  /\ UNCHANGED <<activeTab, currentProcessedImage, currentResults, toast>>
  /\ UNCHANGED pureVars
  /\ UNCHANGED consultVars
  /\ UNCHANGED cameraVars

\* What Promise.all of getClinicalInsights and getFindingLocations gives
\* for n findings: both answers (with a hotspot per finding, or one more),
\* a null answer, or a rejection.
GenAiOutcomes(n) ==
  { [kind |-> "answered", hotspots |-> n],
    [kind |-> "answered", hotspots |-> n + 1],
    [kind |-> "null", hotspots |-> 0],
    [kind |-> "thrown", hotspots |-> 0] }

\* A failed tutoring or location call leaving no trace.
recordInsights_Silent(genai) ==
  IF genai.kind = "answered"
  THEN /\ clinicalInsights' = [null |-> FALSE]
       /\ hotspots' = [null |-> FALSE, count |-> genai.hotspots]
       /\ UNCHANGED isAiRateLimited
  ELSE UNCHANGED <<clinicalInsights, hotspots, isAiRateLimited>>

\* The insights and hotspots are kept, or the rate-limit flag is set.
recordInsights(genai) ==
  IF genai.kind = "answered"
  THEN /\ clinicalInsights' = [null |-> FALSE]
       /\ hotspots' = [null |-> FALSE, count |-> genai.hotspots]
       /\ UNCHANGED isAiRateLimited
  ELSE /\ isAiRateLimited' = TRUE
       /\ UNCHANGED <<clinicalInsights, hotspots>>

\* getClinicalInsights and getFindingLocations have answered (or failed):
\* the results are shown.
showResults ==
  /\ \E i \in Slots :
       LET p == analyses[i]
       IN  /\ p.pc = "insights"
           /\ \E genai \in GenAiOutcomes(Len(p.results.findings)) :
                /\ recordInsights(genai)
                /\ analyses' = [analyses EXCEPT ![i].pc = "done",
                                                ![i].genai = genai.kind]
           /\ IF p.autoNav
              THEN activeTab' = "consult" /\ UNCHANGED showLiveResults
              ELSE showLiveResults' = TRUE /\ UNCHANGED activeTab
           /\ toast' = CompleteToast
           /\ Finished(p)
  /\ lastOp' = "showResults"
  /\ raised' = FALSE
  /\ UNCHANGED <<canvas, currentOriginalImage, quad, dragging, isLiveActive>>
  /\ UNCHANGED <<currentProcessedImage, currentResults, selectedFindingIndex>>
  /\ UNCHANGED pureVars
  /\ UNCHANGED cameraVars

NextFlow ==
  \/ onTabChange
  \/ initCamera
  \/ handleFileUpload
  \/ clearUpload
  \/ selectFinding
  \/ useFullFrameInstead
  \/ confirmVerified
  \/ startUploadAnalysis
  \/ sendCompressed
  \/ runAnalysisSucceeds
  \/ runAnalysisFails
  \/ runAnalysisThrows
  \/ sendFallback
  \/ showResults

SpecFlow == InitFlow /\ [][NextFlow]_vars

\* Every started image load that can finish does, and every network call
\* returns or fails.
FairFlow ==
  /\ WF_vars(sendCompressed)
  /\ WF_vars(sendFallback)
  /\ WF_vars(runAnalysisSucceeds \/ runAnalysisFails \/ runAnalysisThrows)
  /\ WF_vars(showResults)

SpecFlowFair == SpecFlow /\ FairFlow

----------------------------------------------------------------------------
(* Properties of the capture and of the quad editor (Spec)                 *)

\* C1: handleCapture never raises, whatever the frame (zero-sized and tiny
\* frames included): it always ends in verification mode with the camera
\* stopped.
C1_CaptureReachesVerification ==
  lastOp = "handleCapture" => (~raised /\ isVerifyingScan /\ ~isLiveActive)

In01(a) == Finite(a) /\ RLe(R(0), a) /\ RLe(a, R(1))

\* C2: in every reachable state every corner of quad has both coordinates
\* in [0, 1].
C2_QuadInUnitSquare ==
  \A i \in 1..4 : In01(quad[i][1]) /\ In01(quad[i][2])

\* a drag has put a corner on a pointer position outside the container
C2_Witness ==
  /\ lastOp = "onOverlayPointerMove"
  /\ dragging # NoDrag
  /\ quad[dragging + 1] = <<R(1), R(1)>>

\* TL, TR, BR, BL of an axis-aligned rectangle with left <= right, top <= bottom
Ordered(q) ==
  /\ q[1][1] = q[4][1] /\ q[2][1] = q[3][1]
  /\ q[1][2] = q[2][2] /\ q[3][2] = q[4][2]
  /\ RLe(q[1][1], q[2][1]) /\ RLe(q[1][2], q[4][2])

Changed(old, new) == {i \in 1..4 : old[i] # new[i]}

\* C3: a quad set by a capture (detected or fallback) or by the reset is an
\* axis-aligned rectangle in the order TL, TR, BR, BL; every other step
\* changes at most one entry of quad, so none permutes the entries.
C3_FixedOrder ==
  [][ /\ (lastOp' \in {"handleCapture", "useFullFrameInstead"} /\ ~raised')
           => Ordered(quad')
      /\ lastOp' \notin {"handleCapture", "useFullFrameInstead"}
           => Cardinality(Changed(quad, quad')) <= 1 ]_vars

\* a capture has set a detected rectangle
C3_Witness ==
  /\ lastOp = "handleCapture" /\ ~raised
  /\ quad # FallbackQuad
  /\ RLt(quad[1][1], quad[2][1])

\* C4: a pointer move while corner i is dragged replaces entry i of quad by
\* the pointer position clamped to the container, and leaves the other
\* three entries as they were.
C4_DragMovesOneCorner ==
  [][ (lastOp' = "onOverlayPointerMove" /\ dragging # NoDrag) =>
        /\ \A i \in 1..4 : i # dragging + 1 => quad'[i] = quad[i]
        /\ \E e \in PointerEvents : quad'[dragging + 1] = getRelativeXY(e) ]_vars

\* corner 2 has been dragged to the middle of the container
C4_Witness ==
  /\ lastOp = "onOverlayPointerMove"
  /\ dragging = 2
  /\ quad[3] = <<Frac(1, 2), Frac(1, 2)>>
  /\ quad[4] # quad[3]

\* C5: the reset sets quad to [(0,0), (1,0), (1,1), (0,1)], whatever it was
\* (a second reset changes nothing), and leaves the frame, the drag state
\* and the verification mode unchanged.
C5_ResetToFullFrame ==
  [][ lastOp' = "useFullFrameInstead" =>
        /\ quad' = <<<<R(0), R(0)>>, <<R(1), R(0)>>, <<R(1), R(1)>>, <<R(0), R(1)>>>>
        /\ (lastOp = "useFullFrameInstead" => quad' = quad)
        /\ UNCHANGED <<canvas, currentOriginalImage, dragging, isVerifyingScan>> ]_vars

\* a reset during a drag
C5_Witness ==
  /\ lastOp = "useFullFrameInstead"
  /\ dragging # NoDrag
  /\ isVerifyingScan
  /\ quad[3] = <<R(1), R(1)>>

----------------------------------------------------------------------------
(* Properties of warpPerspective and solveHomography (SpecPure)            *)

WarpDone == call.op = "warp" /\ ret # NoCall

SolveDone == call.op = "solve" /\ ret # NoCall

HasSize(out, w, h) ==
  /\ out.width = w /\ out.height = h
  /\ DOMAIN out.data = 0..(w * h - 1)

\* The top-left corner of the quad in source pixels, rounded.
Corner0(c) ==
  <<RRound(RMul(c.q[1][1], R(c.srcCanvas.width))),
    RRound(RMul(c.q[1][2], R(c.srcCanvas.height)))>>

CornerInside(c) ==
  /\ 0 <= Corner0(c)[1][1] /\ Corner0(c)[1][1] < c.srcCanvas.width
  /\ 0 <= Corner0(c)[2][1] /\ Corner0(c)[2][1] < c.srcCanvas.height

ClampI(v, lo, hi) == IF v < lo THEN lo ELSE IF v > hi THEN hi ELSE v

\* The source pixel nearest to the top-left corner of the quad.
Nearest(c) ==
  Pixel(c.srcCanvas, ClampI(Corner0(c)[1][1], 0, c.srcCanvas.width - 1),
                     ClampI(Corner0(c)[2][1], 0, c.srcCanvas.height - 1))

Cross(a, b, c) ==
  RSub(RMul(RSub(b[1], a[1]), RSub(c[2], b[2])),
       RMul(RSub(b[2], a[2]), RSub(c[1], b[1])))

\* All four turns of the outline go the same way: convex, no three corners
\* on a line.
Convex(q) ==
  LET t == <<Cross(q[1], q[2], q[3]), Cross(q[2], q[3], q[4]),
             Cross(q[3], q[4], q[1]), Cross(q[4], q[1], q[2])>>
  IN  \/ \A i \in 1..4 : RLt(R(0), t[i])
      \/ \A i \in 1..4 : RLt(t[i], R(0))

Within1(a, b) == Finite(a) /\ RLe(RAbs(RSub(a, b)), R(1))

OutCorners(c) ==
  <<<<0, 0>>, <<c.outW, 0>>, <<c.outW, c.outH>>, <<0, c.outH>>>>

\* C8: for a convex, non-degenerate quad the computed homography maps the
\* output corners (0,0), (outW,0), (outW,outH), (0,outH) to the quad's
\* corners in source pixels, in that order, to within one pixel.
C8_CornerRoundTrip ==
  (WarpDone /\ Convex(call.q)) =>
    \A i \in 1..4 :
      LET p == Project(ret.out.h, OutCorners(call)[i][1], OutCorners(call)[i][2])
      IN  /\ Within1(p[1], RMul(call.q[i][1], R(call.srcCanvas.width)))
          /\ Within1(p[2], RMul(call.q[i][2], R(call.srcCanvas.height)))

\* a convex quad that is no parallelogram
C8_Witness ==
  /\ WarpDone
  /\ Convex(call.q)
  /\ call.q[1] = <<R(0), R(0)>>
  /\ call.q[3] = <<R(1), Frac(1, 2)>>
  /\ ret.out.h[7] # R(0)

\* The rounded source coordinate of output pixel di.
SourceOf(c, out, di) == MapPixel(out.h, di % c.outW, di \div c.outW)

Inside(s, c) ==
  /\ Finite(s[1]) /\ Finite(s[2])
  /\ 0 <= s[1][1] /\ s[1][1] < c.srcCanvas.width
  /\ 0 <= s[2][1] /\ s[2][1] < c.srcCanvas.height

\* C9: the warp reads a source pixel only when its rounded source
\* coordinate lies inside [0, W) x [0, H); an output pixel whose coordinate
\* is outside or not finite is left at the background.
C9_ReadsInBounds ==
  WarpDone =>
    /\ ret.out.reads \subseteq 0..(call.srcCanvas.width * call.srcCanvas.height - 1)
    /\ \A di \in DOMAIN ret.out.data :
         LET s == SourceOf(call, ret.out, di)
         IN  IF Inside(s, call)
             THEN /\ s[2][1] * call.srcCanvas.width + s[1][1] \in ret.out.reads
                  /\ ret.out.data[di] = Pixel(call.srcCanvas, s[1][1], s[2][1])
             ELSE ret.out.data[di] = Transparent

\* one output pixel has a coordinate that is not finite, another a finite
\* coordinate outside the source, a third was read
C9_Witness ==
  /\ WarpDone
  /\ \E di \in DOMAIN ret.out.data : ~Finite(SourceOf(call, ret.out, di)[1])
  /\ \E di \in DOMAIN ret.out.data :
       LET s == SourceOf(call, ret.out, di)
       IN  Finite(s[1]) /\ Finite(s[2]) /\ ~Inside(s, call)
  /\ ret.out.reads # {}

\* |p| >= 1e-10
AtLeastEps(p) ==
  ~Finite(p) \/ (p[1] # 0 /\ ((p[2] - 1) \div Abs(p[1])) \div EpsInvRoot < EpsInvRoot)

\* C10: solveHomography returns nine coefficients, the ninth equal to 1,
\* for any point lists (duplicate and collinear points included); it works
\* through the eight columns and divides by the pivot of a column exactly
\* when that pivot is at least 1e-10 in magnitude, skipping the column
\* otherwise.
C10_SolveGuardsPivot ==
  SolveDone =>
    /\ Len(ret.h) = 9
    /\ ret.h[9] = R(1)
    /\ Len(ret.log) = 8
    /\ \A k \in 1..8 :
         /\ ret.log[k].col = k
         /\ ret.log[k].divided <=> AtLeastEps(ret.log[k].pivot)

\* collinear points: some columns were divided, others skipped
C10_Witness ==
  /\ SolveDone
  /\ \E k \in 1..8 : ~ret.log[k].divided
  /\ \E k \in 1..8 : ret.log[k].divided
  /\ call.src[1] = call.src[2]

----------------------------------------------------------------------------
(* Properties of autoDetectOPG (SpecPure)                                  *)

DetectDone == call.op = "detect" /\ ret # NoCall /\ ~ret.out.raised

\* The luminance grid of a frame: the frame drawn at 0.2 of its size.
GridOf(c) ==
  [width  |-> RRound(Frac(c.width, 5))[1],
   height |-> RRound(Frac(c.height, 5))[1],
   img    |-> c.img]

\* Foreground of the two hypotheses: luminance below mean - 30 (dark
\* target) and above mean + 30 (light target).
DarkTarget(g, mean) ==
  {i \in 0..(g.width * g.height - 1) :
     RLt(R(Lum(ImageDataAt(g, i))), RSub(mean, R(30)))}

LightTarget(g, mean) ==
  {i \in 0..(g.width * g.height - 1) :
     RLt(RAdd(mean, R(30)), R(Lum(ImageDataAt(g, i))))}

\* The tight bounding box of a non-empty set of grid pixels.
BoxOf(fg, g) ==
  [minX |-> MinOf({i % g.width : i \in fg}), maxX |-> MaxOf({i % g.width : i \in fg}),
   minY |-> MinOf({i \div g.width : i \in fg}), maxY |-> MaxOf({i \div g.width : i \in fg})]

BoxWidth(b) == b.maxX - b.minX + 1
BoxHeight(b) == b.maxY - b.minY + 1

\* Zero unless the count exceeds the minimum and the box covers between 3%
\* and 96% of the grid; otherwise (area fraction) x (aspect bonus), the
\* bonus being 3/2 for a box wider than tall.
HypothesisScore(fg, g) ==
  IF Cardinality(fg) <= 100 THEN R(0)
  ELSE LET b    == BoxOf(fg, g)
           frac == Frac(BoxWidth(b) * BoxHeight(b), g.width * g.height)
       IN  IF RLt(Frac(3, 100), frac) /\ RLt(frac, Frac(96, 100))
           THEN RMul(frac, IF BoxWidth(b) > BoxHeight(b) THEN Frac(3, 2) ELSE R(1))
           ELSE R(0)

\* The box padded by 2%, normalised and clamped, as TL, TR, BR, BL.
QuadOfBox(b, g) ==
  LET left   == RMax(R(0), RSub(Frac(b.minX, g.width), Frac(2, 100)))
      right  == RMin(R(1), RAdd(Frac(b.maxX, g.width), Frac(2, 100)))
      top    == RMax(R(0), RSub(Frac(b.minY, g.height), Frac(2, 100)))
      bottom == RMin(R(1), RAdd(Frac(b.maxY, g.height), Frac(2, 100)))
  IN  <<<<left, top>>, <<right, top>>, <<right, bottom>>, <<left, bottom>>>>

\* C12: the detector scores the dark-target and the light-target
\* hypothesis and returns the quad of the higher-scoring one; it returns
\* the fallback quad only when both score zero.
C12_BetterHypothesisWins ==
  DetectDone =>
    LET g     == GridOf(call.srcCanvas)
        dark  == DarkTarget(g, ret.out.mean)
        light == LightTarget(g, ret.out.mean)
        ds    == HypothesisScore(dark, g)
        ls    == HypothesisScore(light, g)
    IN  /\ (ret.out.quad = FallbackQuad) <=> (ds = R(0) /\ ls = R(0))
        /\ RLt(ls, ds) => ret.out.quad = QuadOfBox(BoxOf(dark, g), g)
        /\ RLt(ds, ls) => ret.out.quad = QuadOfBox(BoxOf(light, g), g)

\* C13: a candidate is accepted only if its foreground count exceeds the
\* minimum and its bounding-box area lies between the lower and the upper
\* fraction of the grid area; whatever the grid size, a grid whose every
\* pixel is foreground and a grid without foreground give the fallback quad.
C13_AcceptanceBounds ==
  DetectDone =>
    LET n == ret.out.width * ret.out.height
    IN  /\ ret.out.quad # FallbackQuad =>
             /\ ret.out.count > 100
             /\ 100 * ret.out.area > 5 * n
             /\ 100 * ret.out.area < 95 * n
        /\ (ret.out.count = n \/ ret.out.count = 0) => ret.out.quad = FallbackQuad

BrightRectFrame == Frame(500, 500, RectImg(Grey(255), Grey(0), 1, 9, 2, 8, 10))

\* |a / n - t| <= 3%
Within3(a, n, t) == RLe(RAbs(RSub(Frac(a, n), t)), Frac(3, 100))

\* C15: for the bright rectangle on black the detector does not return the
\* fallback quad, and the bounds it found (before padding) are within 3% of
\* the grid dimensions of the rectangle's.
C15_BrightRectangleFound ==
  (DetectDone /\ call.srcCanvas = BrightRectFrame) =>
    /\ ret.out.quad # FallbackQuad
    /\ Within3(ret.out.minX, ret.out.width, Frac(10, 100))
    /\ Within3(ret.out.maxX, ret.out.width, Frac(90, 100))
    /\ Within3(ret.out.minY, ret.out.height, Frac(20, 100))
    /\ Within3(ret.out.maxY, ret.out.height, Frac(80, 100))

\* The score the detector gives its candidate: the area fraction of an
\* accepted bounding box (the code applies no further factor), zero for a
\* rejected one.
CandidateScore(d) ==
  IF d.useDetection THEN Frac(d.area, d.width * d.height) ELSE R(0)

\* The frame mirrored at its diagonal.
Transposed(c) ==
  Frame(c.height, c.width,
        RectImg(c.img.fg, c.img.bg, c.img.y0, c.img.y1, c.img.x0, c.img.x1, c.img.div))

Landscape(d) == d.maxX - d.minX > d.maxY - d.minY

\* C16: of two accepted regions of equal area on otherwise identical grids,
\* one landscape and one portrait, the landscape one scores at least 1.5
\* times the portrait one.
C16_LandscapePreferred ==
  (DetectDone /\ ret.out.useDetection /\ Landscape(ret.out)
     /\ call.srcCanvas.width = call.srcCanvas.height
     /\ call.srcCanvas.img.kind = "rect") =>
    LET portrait == autoDetectOPG(Transposed(call.srcCanvas))
    IN  (portrait.useDetection /\ portrait.area = ret.out.area) =>
          RLe(RMul(Frac(3, 2), CandidateScore(portrait)), CandidateScore(ret.out))

----------------------------------------------------------------------------
(* Properties of the screen-to-image mapping (Spec)                        *)

\* C17: the editor maps screen positions against the rendered image
\* rectangle: the screen positions of the rendered image's top-left and
\* bottom-right corners map to (0,0) and (1,1), also when the aspect ratios
\* of container and image differ.
C17_MappingUsesRenderedImage ==
  OverlayRendered =>
    LET r == RenderedImageRect(currentOriginalImage.width, currentOriginalImage.height)
    IN  /\ RelativeXY(r.left, r.top) = <<R(0), R(0)>>
        /\ RelativeXY(RAdd(r.left, r.width), RAdd(r.top, r.height)) = <<R(1), R(1)>>

----------------------------------------------------------------------------
(* Properties of processImage (SpecFlow)                                   *)

LongSide(uri) == IF uri.width > uri.height THEN uri.width ELSE uri.height

\* C18: one processImage call sends at most two classification requests:
\* the first with its (warped) image, and at most one retry, sent only
\* after the first call failed, with the original uncropped frame (the
\* frame the warp was taken from) put through the same compression (longer
\* side at most 1200) as the first.
C18_AtMostOneRetry ==
  \A i \in Slots :
    LET p == analyses[i]
    IN  /\ Len(p.sent) <= 2
        /\ Len(p.sent) >= 1 =>
             /\ p.sent[1] = compressImage(p.dataUri, 1200)
             /\ p.fromVerified => p.dataUri.img.kind = "warped"
        /\ Len(p.sent) = 2 =>
             /\ p.fromVerified
             /\ p.replies[1].kind # "success"
             /\ p.sent[2] = compressImage(p.dataUri.img.of, 1200)
             /\ p.sent[2].img.quality = p.sent[1].img.quality
             /\ LongSide(p.sent[2]) <= 1200

\* C19: in the live-capture flow a failure is shown only after the retry
\* with the uncropped frame was attempted, whether the first call returned
\* a failure result or threw.
C19_RetryBeforeFailureShown ==
  \A i \in Slots :
    LET p == analyses[i]
    IN  (/\ p.fromVerified
         /\ p.pc = "done"
         /\ p.replies[1].kind # "success") => Len(p.sent) = 2

\* The step in which processImage i reports that its retry failed too.
BothFailed(i) ==
  /\ analyses[i].pc = "retry"
  /\ analyses'[i].pc = "done"
  /\ analyses'[i].replies[1].kind # "success"
  /\ analyses'[i].replies[2].kind # "success"

NothingRecorded ==
  /\ currentResults = NoResults
  /\ currentProcessedImage = NoImage
  /\ ~showLiveResults

ShownText(reply) ==
  IF reply.kind = "failure"
  THEN IF includes(toLowerCase(reply.text), <<"a", "r", "g", "m", "i", "n">>)
       THEN ArchHint
       ELSE reply.text
  ELSE IF reply.text = <<>>
       THEN <<"A communication error occurred.">>
       ELSE reply.text

\* Another processImage call has received a successful answer.
OtherSucceeded(i) ==
  \E j \in Slots \ {i} :
    \E k \in 1..Len(analyses[j].replies) : analyses[j].replies[k].kind = "success"

----------------------------------------------------------------------------
(* Properties of the analysis beside the rest of the interface             *)

InFlight(p) == p.pc \notin {"idle", "done"}

\* C21: an analysis still in flight when a new capture is started (the
\* camera is live again) is discarded: none of its later steps sets
\* currentResults, currentProcessedImage, hotspots, clinicalInsights or
\* showLiveResults.
C21_NewCaptureDiscardsAnalysis ==
  [][ \A i \in Slots :
        (/\ analyses[i].fromVerified
         /\ InFlight(analyses[i])
         /\ isLiveActive
         /\ analyses'[i] # analyses[i])
        => UNCHANGED <<currentResults, currentProcessedImage, hotspots,
                       clinicalInsights, showLiveResults>> ]_vars

\* C22: at most one analysis is in flight, and while it runs no second
\* Confirm & Analyze, upload analysis, Quad reset or capture is accepted.
C22_OneActionAtATime ==
  [][ /\ inFlight' <= 1
      /\ inFlight > 0 =>
           lastOp' \notin {"startAnalysisFromVerified", "startUploadAnalysis",
                           "useFullFrameInstead", "handleCapture"} ]_vars

\* C23: while the tutoring and finding-location calls of an analysis are
\* pending its results are not shown, neither in the live results view nor
\* on the Consult tab.
C23_ResultsAfterInsights ==
  \A i \in Slots :
    (analyses[i].pc = "insights" /\ currentResults = analyses[i].results) =>
      /\ ~(activeTab = "consult")
      /\ ~(activeTab = "live" /\ showLiveResults /\ currentProcessedImage # NoImage)

\* C24: no stream acquired by initCamera keeps its tracks running without
\* being the stream streamRef refers to, and after a capture no stream runs
\* at all.
C24_NoStreamLeftRunning ==
  /\ ~lostStream
  /\ (lastOp = "handleCapture" /\ ~raised) => streamRef = "null"

\* The step in which the insight calls of analysis i end in the given way.
InsightsEnd(i, kinds) ==
  /\ analyses[i].pc = "insights"
  /\ analyses'[i].pc = "done"
  /\ analyses'[i].genai \in kinds

\* C25: a successful classification records its processed image and
\* findings, and when the tutoring or finding-location call then throws or
\* returns null the results are shown all the same: the failure sets the
\* rate-limited flag, leaves what was recorded and the toast says the
\* analysis is complete.
C25_SurvivesGenAiFailure ==
  [][ \A i \in Slots :
        /\ (analyses[i].pc \in {"call", "retry"} /\ analyses'[i].pc = "insights") =>
             /\ currentResults' = analyses'[i].results
             /\ currentResults' # NoResults
             /\ currentProcessedImage'.img.kind = "annotated"
        /\ InsightsEnd(i, {"null", "thrown"}) =>
             /\ isAiRateLimited'
             /\ UNCHANGED <<currentResults, currentProcessedImage>>
             /\ IF analyses[i].autoNav THEN activeTab' = "consult"
                                       ELSE showLiveResults'
             /\ toast'.variant # "destructive"
             /\ toast'.title = "Analysis Complete" ]_vars

C25_Witness ==
  \E i \in Slots :
    /\ analyses[i].pc = "done"
    /\ analyses[i].genai = "thrown"
    /\ lastOp = "showResults"
    /\ isAiRateLimited
    /\ currentResults = analyses[i].results
    /\ showLiveResults

\* C26: every image sent to the classification service is the output of
\* compressImage: a JPEG of the image given to processImage (or of the
\* fallback image), no side longer than 1200, the aspect ratio kept (up to
\* the fraction of a pixel the canvas size drops), and the size unchanged
\* when the input is within the limit.
C26_SentImagesCompressed ==
  \A i \in Slots :
    \A k \in 1..Len(analyses[i].sent) :
      LET out == analyses[i].sent[k]
          in  == IF k = 1 THEN analyses[i].dataUri ELSE analyses[i].originalFallbackUri
          d   == out.width * in.height - out.height * in.width
      IN  /\ out.img.kind = "jpeg"
          /\ out.img.of = in.img
          /\ out.width <= 1200 /\ out.height <= 1200
          /\ -LongSide(in) < d /\ d < LongSide(in)
          /\ LongSide(in) <= 1200 => (out.width = in.width /\ out.height = in.height)
          /\ LongSide(in) > 1200 => LongSide(out) = 1200

C26_Witness ==
  \E i \in Slots :
    /\ Len(analyses[i].sent) = 1
    /\ analyses[i].dataUri.width = 1500
    /\ analyses[i].sent[1].width = 600
    /\ analyses[i].sent[1].height = 1200

\* C27: pointer movement changes the Quad only between a drag-begin and the
\* matching drag-end; the end of verification mode ends a drag, so the
\* first pointer move after a capture changes nothing.
C27_MovesOnlyWhileDragging ==
  [][ lastOp' = "onOverlayPointerMove" =>
        /\ dragging = NoDrag => quad' = quad
        /\ lastOp = "handleCapture" => quad' = quad ]_vars

\* C28: selectedFindingIndex is null or a valid index into currentResults.
C28_SelectionIsValid ==
  \/ selectedFindingIndex = NoSelection
  \/ /\ currentResults # NoResults
     /\ 0 <= selectedFindingIndex
     /\ selectedFindingIndex < Len(currentResults.findings)

\* C29: in verification mode currentOriginalImage is non-null and is the
\* frame the capture canvas holds.
C29_VerifiedFrameIsCanvas ==
  isVerifyingScan =>
    /\ currentOriginalImage # NoImage
    /\ currentOriginalImage = canvas

\* C30: every started analysis eventually finishes: the analysing
\* indicator clears.
C30_AnalysisFinishes == (inFlight > 0) ~> (inFlight = 0)

====
